---- MODULE Spec2Model ----
(***************************************************************************)
(* Model of frontend/src/components/InteractiveSVGViewer.tsx: a React      *)
(* function component that mounts a parsed SVG document into a container   *)
(* and pans/zooms it.                                                      *)
(*                                                                         *)
(* React semantics carried by the model:                                   *)
(*  - useState values (scale, position, isDragging, dragStart) are the     *)
(*    component state; every render creates new handler closures that      *)
(*    read the state of that render.                                       *)
(*  - the effect of lines 17-104 has the dependency list [svgContent]: it  *)
(*    runs only in the render in which svgContent changed, and the         *)
(*    listeners it registers on the svg root are the handler closures of   *)
(*    THAT render.  Their view of the state is the variable `captured`.    *)
(*  - the control-bar buttons (onClick={zoomIn} ...) are re-bound on every *)
(*    render, so they read the current state.                              *)
(*  - svgRef / containerRef are refs: read at call time.                   *)
(*                                                                         *)
(* JavaScript numbers are modelled as exact rationals plus NaN and         *)
(* +/-Infinity (records [k, n, d]).  A behaviour is a sequence of at most  *)
(* MaxSteps operations of the user, the host application and the timers    *)
(* (Spec), or of at most MaxZoomSteps operations of the host application   *)
(* and the control bar (SpecZoom, which reaches the upper zoom bound).     *)
(*                                                                         *)
(* The application form that hosts the viewer (function App of             *)
(* unnamed/part_001, handleSubmit also in frontend/src/App.tsx) is the     *)
(* third specification, SpecApp: its async handlers are split at their     *)
(* await points into a start action and a settle action, and a handler     *)
(* that is suspended keeps the formData of the render that invoked it.     *)
(* The hover listeners of lines 72-79 are modelled as registrations only   *)
(* (their style writes touch nothing any other operation reads).           *)
(***************************************************************************)
EXTENDS Integers, Sequences, FiniteSets, TLC

\* ------------------------------------------------------------------ bounds
\* number of times the effect of lines 17-104 may run (mount attempts)
MaxMounts == 2
\* number of click-feedback timers that may be pending at once
MaxTimers == 2
\* number of operations in a behaviour
MaxSteps == 6
\* number of operations in a behaviour of the control bar alone (SpecZoom)
MaxZoomSteps == 9
\* number of operations in a behaviour of the application form (SpecApp)
MaxAppSteps == 5
\* number of handleFileUpload calls that may be suspended at once
MaxUploads == 2

\* ------------------------------------------------------------ JS numbers
Abs(i) == IF i < 0 THEN -i ELSE i

Sign(i) == IF i < 0 THEN -1 ELSE IF i > 0 THEN 1 ELSE 0

RECURSIVE GCD(_, _)
GCD(a, b) == IF b = 0 THEN a ELSE GCD(b, a % b)

NaN == [k |-> "nan", n |-> 0, d |-> 1]

Inf(s) == [k |-> "inf", n |-> s, d |-> 1]

\* the number n/d, in lowest terms with a positive denominator (d # 0)
Q(n, d) ==
    LET g == GCD(Abs(n), Abs(d))
        s == IF d < 0 THEN -1 ELSE 1
    IN [k |-> "num", n |-> s * (n \div g), d |-> Abs(d) \div g]

Int2Num(i) == Q(i, 1)

IsFinite(a) == a.k = "num"

\* a * b as IEEE-754 does it for the special values
Mul(a, b) ==
    IF a.k = "nan" \/ b.k = "nan" THEN NaN
    ELSE IF a.k = "inf" \/ b.k = "inf"
         THEN IF a.n = 0 \/ b.n = 0 THEN NaN ELSE Inf(Sign(a.n) * Sign(b.n))
    ELSE LET g1 == GCD(Abs(a.n), b.d)
             g2 == GCD(Abs(b.n), a.d)
         IN Q((a.n \div g1) * (b.n \div g2), (a.d \div g2) * (b.d \div g1))

\* a / b as IEEE-754 does it: x/0 is +/-Infinity, 0/0 is NaN
Div(a, b) ==
    IF a.k = "nan" \/ b.k = "nan" THEN NaN
    ELSE IF a.k = "inf"
         THEN IF b.k = "inf" THEN NaN
              ELSE Inf(a.n * (IF b.n < 0 THEN -1 ELSE 1))
    ELSE IF b.k = "inf" THEN Q(0, 1)
    ELSE IF b.n = 0
         THEN IF a.n = 0 THEN NaN ELSE Inf(Sign(a.n))
    ELSE LET g1 == GCD(Abs(a.n), Abs(b.n))
             g2 == GCD(a.d, b.d)
         IN Q((a.n \div g1) * (b.d \div g2), (a.d \div g2) * (b.n \div g1))

\* a < b; every comparison with NaN is false
Lt(a, b) ==
    IF a.k = "nan" \/ b.k = "nan" THEN FALSE
    ELSE IF a.k = "inf" THEN a.n < 0 /\ ~(b.k = "inf" /\ b.n < 0)
    ELSE IF b.k = "inf" THEN b.n > 0
    ELSE LET gn == GCD(Abs(a.n), Abs(b.n))
             gd == GCD(a.d, b.d)
             hn == IF gn = 0 THEN 1 ELSE gn
         IN (a.n \div hn) * (b.d \div gd) < (b.n \div hn) * (a.d \div gd)

Le(a, b) == Lt(a, b) \/ (a.k # "nan" /\ a = b)

\* Math.min / Math.max: NaN if an argument is NaN
MathMin(a, b) ==
    IF a.k = "nan" \/ b.k = "nan" THEN NaN
    ELSE IF Lt(b, a) THEN b ELSE a

MathMax(a, b) ==
    IF a.k = "nan" \/ b.k = "nan" THEN NaN
    ELSE IF Lt(a, b) THEN b ELSE a

One == Q(1, 1)

\* the literals of the zoom code
MinScale == Q(1, 10)

MaxScale == Q(3, 1)

WheelOutFactor == Q(9, 10)

WheelInFactor == Q(11, 10)

ZoomInFactor == Q(12, 10)

ZoomOutFactor == Q(8, 10)

FitMargin == Q(9, 10)

\* ------------------------------------------------------------ input sets
\* pointer positions (clientX, clientY) of mouse events
Points == {<<0, 0>>, <<10, 20>>}

\* mouse buttons; every one of them raises mousedown / mouseup
Buttons == {"left", "right"}

\* containerRef.current.getBoundingClientRect(): the Box of lines 231-241 is
\* laid out 500 px high (h="500px"); its width comes from the page
ContainerRect == <<500, 500>>

\* untransformed layout sizes of the svg root of a document
ContentSizes == {<<1000, 2000>>, <<500, 9000>>}

\* values of the svgContent prop: "", a well-formed svg document, anything else
EmptyDoc == [kind |-> "empty", w |-> 0, h |-> 0]

BadDoc == [kind |-> "bad", w |-> 0, h |-> 0]

SvgDocs == {[kind |-> "svg", w |-> s[1], h |-> s[2]] : s \in ContentSizes}

Docs == {EmptyDoc, BadDoc} \cup SvgDocs

\* before the first render no prop value has been seen
NoDoc == [kind |-> "unset", w |-> 0, h |-> 0]

RootEvents == {"mousedown", "mousemove", "mouseup", "mouseleave", "wheel"}

SubEvents == {"click", "mouseenter", "mouseleave"}

NodeIds == 1 .. MaxMounts

Origin == <<0, 0>>

\* style.transform before anything was written to it
NoTransform == [s |-> One, tx |-> Q(0, 1), ty |-> Q(0, 1)]

\* an svg root that document.createElement / DOMParser has not produced yet
NoNode ==
    [attached |-> FALSE, listeners |-> {}, transform |-> NoTransform,
     cursor |-> "", w |-> 0, h |-> 0,
     subListeners |-> {}, fill |-> ""]

VARIABLES
    life,          \* "new": constructed, no effect run yet; "live"; "destroyed";
                   \* "crashed": an exception left the effect
    svgContent,    \* the svgContent prop of the last render
    scale,         \* useState(1)
    position,      \* useState({x: 0, y: 0})
    isDragging,    \* useState(false)
    dragStart,     \* useState({x: 0, y: 0})
    captured,      \* the state as seen by the handlers the effect registered
    gen,           \* number of runs of the effect (names the render of a handler)
    cleanup,       \* 0, or the run of the effect whose cleanup is pending
    svgRef,        \* svgRef.current: 0 (null) or a node
    container,     \* containerRef.current: "null", or its content
    nodes,         \* the svg roots created so far, with one interactive child
    timers,        \* pending setTimeout callbacks of the click listener
    pointerOver,   \* the pointer is over the attached svg root
    buttons,       \* mouse buttons held down since they were pressed on the diagram
    formData,      \* App: useState<FormData>({}), the fields the model follows
    results,       \* App: useState<Results | null>(null)
    loading,       \* App: useState(false)
    uploadProgress,    \* App: useState(0)
    fileUploadResults, \* App: useState<any[]>([])
    uploads,       \* App: the handleFileUpload calls suspended at their fetch
    submitting,    \* App: a handleSubmit call is suspended at its fetch
    lastOp,        \* the operation that led to this state (history)
    steps          \* number of operations the behaviour may still take

vars ==
    <<life, svgContent, scale, position, isDragging, dragStart, captured, gen,
      cleanup, svgRef, container, nodes, timers, pointerOver,
      buttons, formData, results, loading, uploadProgress, fileUploadResults,
      uploads, submitting, lastOp, steps>>

\* the state of the viewer component
viewerVars ==
    <<life, svgContent, scale, position, isDragging, dragStart, captured, gen,
      cleanup, svgRef, container, nodes, timers, pointerOver, buttons>>

\* the state of the application form
appVars ==
    <<formData, results, loading, uploadProgress, fileUploadResults, uploads,
      submitting>>

\* op: the operation; p: the pointer position of a mouse event; n: the number
\* of zoomIn calls since the last resetView with nothing else in between
\* (-1 when there is no such run)
Op(name, p, n) == [op |-> name, p |-> p, n |-> n]

\* one more operation, within the bound of the model
Step(name, p) ==
    /\ steps > 0
    /\ steps' = steps - 1
    /\ lastOp' = Op(name, p,
                    IF name = "reset" THEN 0
                    ELSE IF name = "zoomIn" /\ lastOp.n >= 0 THEN lastOp.n + 1
                    ELSE -1)
    /\ UNCHANGED appVars

\* ------------------------------------------------------------- DOM reads
Attached == {i \in NodeIds : nodes[i].attached}

\* svgRef.current.getBoundingClientRect(): the laid-out box under the applied
\* transform; a node that is not in the document has an all-zero rect
SvgRect(ns, i) ==
    IF ns[i].attached
    THEN <<Mul(Int2Num(ns[i].w), ns[i].transform.s),
           Mul(Int2Num(ns[i].h), ns[i].transform.s)>>
    ELSE <<Q(0, 1), Q(0, 1)>>

\* --------------------------------------------------------- updateTransform
\* the value of `scale(s) translate(x / s px, y / s px)`
TransformOf(newScale, newPosition) ==
    [s |-> newScale,
     tx |-> Div(Int2Num(newPosition[1]), newScale),
     ty |-> Div(Int2Num(newPosition[2]), newScale)]

\* a declaration whose numbers are NaN or Infinity is dropped by the CSSOM
ValidTransform(t) == IsFinite(t.s) /\ IsFinite(t.tx) /\ IsFinite(t.ty)

\* lines 140-144, on the node table ns with svgRef.current = ref
updateTransform(ns, ref, newScale, newPosition) ==
    IF ref # 0 /\ ValidTransform(TransformOf(newScale, newPosition))
    THEN [ns EXCEPT ![ref].transform = TransformOf(newScale, newPosition)]
    ELSE ns

\* svgRef.current.style.cursor = c, guarded by `if (svgRef.current)`
SetCursor(ns, ref, c) ==
    IF ref # 0 THEN [ns EXCEPT ![ref].cursor = c] ELSE ns

\* ------------------------------------------------------------ pure steps
\* line 135
WheelScale(s, dir) ==
    MathMax(MinScale,
            MathMin(MaxScale,
                    Mul(s, IF dir = "out" THEN WheelOutFactor ELSE WheelInFactor)))

\* line 147 without Math.min
ZoomInScaleUnclamped(s) == Mul(s, ZoomInFactor)

\* line 147
ZoomInScale(s) == MathMin(MaxScale, Mul(s, ZoomInFactor))

\* line 153
ZoomOutScale(s) == MathMax(MinScale, Mul(s, ZoomOutFactor))

\* fitToContainer without the 0.9 margin of line 172
FitScaleNoMargin(cRect, sRect) ==
    LET scaleX == Div(Int2Num(cRect[1]), sRect[1])
        scaleY == Div(Int2Num(cRect[2]), sRect[2])
    IN MathMin(MathMin(scaleX, scaleY), One)

\* lines 167-172
FitScale(cRect, sRect) ==
    LET scaleX == Div(Int2Num(cRect[1]), sRect[1])
        scaleY == Div(Int2Num(cRect[2]), sRect[2])
    IN Mul(MathMin(MathMin(scaleX, scaleY), One), FitMargin)

\* lines 118-119 and 108
Minus(p, q) == <<p[1] - q[1], p[2] - q[2]>>

\* ------------------------------------------------------------------ Init
\* lines 10-15: the refs and the useState initial values of a new instance
InitState ==
    /\ life = "new"
    /\ svgContent = NoDoc
    /\ scale = One
    /\ position = Origin
    /\ isDragging = FALSE
    /\ dragStart = Origin
    /\ captured = [scale |-> One, position |-> Origin, isDragging |-> FALSE,
                   dragStart |-> Origin, gen |-> 0]
    /\ gen = 0
    /\ cleanup = 0
    /\ svgRef = 0
    /\ container = "null"
    /\ nodes = [i \in NodeIds |-> NoNode]
    /\ timers = <<>>
    /\ pointerOver = FALSE
    /\ buttons = {}
    /\ lastOp = Op("init", Origin, -1)
    /\ formData = [field |-> "", uploaded_files_info |-> <<>>]
    /\ results = "null"
    /\ loading = FALSE
    /\ uploadProgress = 0
    /\ fileUploadResults = <<>>
    /\ uploads = {}
    /\ submitting = FALSE

Init == InitState /\ steps = MaxSteps

\* ------------------------------------------------- the effect, lines 17-104
DetachAll(ns) == [i \in NodeIds |-> [ns[i] EXCEPT !.attached = FALSE]]

\* lines 95-103: the cleanup returned by run g of the effect removes the root
\* handlers of render g from whatever svgRef.current is when it runs
RunCleanup(ns, ref, g) ==
    IF g # 0 /\ ref # 0
    THEN [ns EXCEPT ![ref].listeners = @ \ {<<e, g>> : e \in RootEvents}]
    ELSE ns

\* lines 35-82: the parsed root of a well-formed document, styled, with the
\* handlers of render g on it and the click/hover listeners on its child
NewNode(doc, g) ==
    [attached |-> TRUE, listeners |-> {<<e, g>> : e \in RootEvents},
     transform |-> NoTransform, cursor |-> "grab", w |-> doc.w, h |-> doc.h,
     subListeners |-> SubEvents, fill |-> "original"]

\* the try block without the tagName test of line 37
TryOutcomeNoTagCheck(doc) == "appended"

\* lines 32-89, the try block: the root is appended when its tagName is 'svg'
\* (line 37); otherwise line 88 throws.  A root that is an element named svg
\* outside the SVG namespace has no style object, so line 39 throws a
\* TypeError: for the effect it is a BadDoc as well.
TryOutcome(doc) == IF doc.kind = "svg" THEN "appended" ELSE "thrown"

\* a try block whose catch clause rethrows
AfterCatchRethrows(outcome) == outcome

\* lines 90-93: catch (error) turns a throw of the try block into the error
\* paragraph
AfterCatch(outcome) == IF outcome = "thrown" THEN "error" ELSE outcome

\* the throw of line 88 comes before appendChild (line 83) and before
\* svgRef.current = svgElement (line 49): the parsed root is dropped
FailedMount(ns, doc, id) == ns

\* a render with a new svgContent: React commits the output (the container Box
\* exists only for non-empty content, lines 179-185), runs the pending cleanup,
\* then the effect
SetContent(doc) ==
    /\ life \in {"new", "live"}
    /\ doc \in Docs
    /\ doc # svgContent
    /\ gen < MaxMounts
    /\ LET id == gen + 1
           cap == [scale |-> scale, position |-> position,
                   isDragging |-> isDragging, dragStart |-> dragStart, gen |-> id]
           committed == IF doc.kind = "empty" THEN DetachAll(nodes) ELSE nodes
           cleaned == RunCleanup(committed, svgRef, cleanup)
           cleared == DetachAll(cleaned)
           mounted == [cleared EXCEPT ![id] = NewNode(doc, id)]
           newScale == FitScale(ContainerRect, SvgRect(mounted, id))
           outcome == IF doc.kind = "empty" THEN "returned"
                      ELSE AfterCatch(TryOutcome(doc))
       IN /\ svgContent' = doc
          /\ gen' = id
          /\ life' = IF outcome = "thrown" THEN "crashed" ELSE "live"
          /\ IF outcome = "returned"
             THEN \* line 18: early return, no cleanup registered
                  /\ nodes' = cleaned
                  /\ container' = "null"
                  /\ cleanup' = 0
                  /\ pointerOver' = FALSE
                  /\ UNCHANGED <<scale, position, svgRef, captured>>
             ELSE IF outcome = "appended"
             THEN \* lines 37-86, ending with fitToContainer()
                  /\ svgRef' = id
                  /\ captured' = cap
                  /\ scale' = newScale
                  /\ position' = Origin
                  /\ nodes' = updateTransform(mounted, id, newScale, Origin)
                  /\ container' = "diagram"
                  /\ cleanup' = id
                  /\ pointerOver' = pointerOver
             ELSE IF outcome = "error"
             THEN \* lines 88-92: throw, caught, error paragraph
                  /\ nodes' = FailedMount(cleared, doc, id)
                  /\ container' = "error"
                  /\ cleanup' = id
                  /\ pointerOver' = FALSE
                  /\ UNCHANGED <<scale, position, svgRef, captured>>
             ELSE \* the exception leaves the effect: the container stays as
                  \* line 21 cleared it and React discards the component tree
                  /\ nodes' = FailedMount(cleared, doc, id)
                  /\ container' = "empty"
                  /\ cleanup' = 0
                  /\ pointerOver' = FALSE
                  /\ UNCHANGED <<scale, position, svgRef, captured>>
          /\ Step("mount", Origin)
          /\ UNCHANGED <<isDragging, dragStart, timers, buttons>>

\* React unmounts the component: the pending cleanup runs, the output leaves
\* the document, and the instance's state and refs are discarded (they are
\* given their initial values here); the DOM nodes and timers live on
Destroy ==
    /\ life = "live"
    /\ life' = "destroyed"
    /\ nodes' = DetachAll(RunCleanup(nodes, svgRef, cleanup))
    /\ cleanup' = 0
    /\ container' = "null"
    /\ pointerOver' = FALSE
    /\ buttons' = buttons
    /\ svgContent' = NoDoc
    /\ scale' = One
    /\ position' = Origin
    /\ isDragging' = FALSE
    /\ dragStart' = Origin
    /\ svgRef' = 0
    /\ captured' = [scale |-> One, position |-> Origin, isDragging |-> FALSE,
                    dragStart |-> Origin, gen |-> 0]
    /\ Step("destroy", Origin)
    /\ UNCHANGED <<gen, timers>>

\* ----------------------------------------------- control bar, lines 194-227
\* the control bar is rendered when svgContent is not empty (line 179)
ControlsShown == life = "live" /\ svgContent.kind \in {"svg", "bad"}

\* isDisabled={scale > 3}
zoomInDisabledAbove == Lt(MaxScale, scale)

\* line 200: isDisabled={scale >= 3}
zoomInDisabled == Le(MaxScale, scale)

\* line 209: isDisabled={scale <= 0.1}
zoomOutDisabled == Le(scale, MinScale)

\* what the component shows in place of the diagram: the placeholder text of
\* lines 179-185 for empty content, otherwise the content of the container Box
Rendered ==
    IF life # "live" THEN "nothing"
    ELSE IF svgContent.kind = "empty" THEN "noContentMessage"
    ELSE container

\* zoomIn that also calls setIsDragging(false)
zoomInEndsDrag ==
    /\ ControlsShown
    /\ ~zoomInDisabled
    /\ scale' = ZoomInScale(scale)
    /\ nodes' = updateTransform(nodes, svgRef, ZoomInScale(scale), position)
    /\ isDragging' = FALSE
    /\ Step("zoomIn", Origin)
    /\ UNCHANGED <<life, svgContent, position, dragStart, captured,
                   gen, cleanup, svgRef, container, timers,
                   pointerOver, buttons>>

\* lines 146-150; a disabled button raises no click
zoomIn ==
    /\ ControlsShown
    /\ ~zoomInDisabled
    /\ scale' = ZoomInScale(scale)
    /\ nodes' = updateTransform(nodes, svgRef, ZoomInScale(scale), position)
    /\ Step("zoomIn", Origin)
    /\ UNCHANGED <<life, svgContent, position, isDragging, dragStart, captured,
                   gen, cleanup, svgRef, container, timers,
                   pointerOver, buttons>>

\* lines 152-156; a disabled button raises no click
zoomOut ==
    /\ ControlsShown
    /\ ~zoomOutDisabled
    /\ scale' = ZoomOutScale(scale)
    /\ nodes' = updateTransform(nodes, svgRef, ZoomOutScale(scale), position)
    /\ Step("zoomOut", Origin)
    /\ UNCHANGED <<life, svgContent, position, isDragging, dragStart, captured,
                   gen, cleanup, svgRef, container, timers,
                   pointerOver, buttons>>

\* resetView without its updateTransform call (line 161 dropped)
resetViewNoTransform ==
    /\ ControlsShown
    /\ scale' = One
    /\ position' = Origin
    /\ Step("reset", Origin)
    /\ UNCHANGED <<life, svgContent, isDragging, dragStart, captured, gen,
                   cleanup, svgRef, container, nodes, timers, pointerOver,
                   buttons>>

\* lines 158-162
resetView ==
    /\ ControlsShown
    /\ scale' = One
    /\ position' = Origin
    /\ nodes' = updateTransform(nodes, svgRef, One, Origin)
    /\ Step("reset", Origin)
    /\ UNCHANGED <<life, svgContent, isDragging, dragStart, captured, gen,
                   cleanup, svgRef, container, timers,
                   pointerOver, buttons>>

\* lines 164-177, from the Fit button
fitToContainer ==
    /\ ControlsShown
    /\ IF container = "null" \/ svgRef = 0
       THEN UNCHANGED <<scale, position, nodes>>
       ELSE LET newScale == FitScale(ContainerRect, SvgRect(nodes, svgRef))
            IN /\ scale' = newScale
               /\ position' = Origin
               /\ nodes' = updateTransform(nodes, svgRef, newScale, Origin)
    /\ Step("fit", Origin)
    /\ UNCHANGED <<life, svgContent, isDragging, dragStart, captured, gen,
                   cleanup, svgRef, container, timers,
                   pointerOver, buttons>>

\* --------------------------------------------- pointer events on the root
\* the root the pointer is over
Target == CHOOSE i \in NodeIds : nodes[i].attached

\* the attached root has the handler that the effect registered for event e;
\* it is a closure of the render recorded in `captured`
Hears(e) ==
    /\ pointerOver
    /\ Attached # {}
    /\ <<e, captured.gen>> \in nodes[Target].listeners

\* the pointer comes over the diagram (the root has no mouseenter listener)
PointerEnter ==
    /\ life = "live"
    /\ ~pointerOver
    /\ Attached # {}
    /\ pointerOver' = TRUE
    /\ Step("enter", Origin)
    /\ UNCHANGED <<life, svgContent, scale, position, isDragging, dragStart,
                   captured, gen, cleanup, svgRef, container, nodes, timers, buttons>>

\* button b goes down at p over the diagram: handleMouseDown, lines 106-112
MouseDown(p, b) ==
    /\ life = "live"
    /\ p \in Points
    /\ b \in Buttons \ buttons
    /\ buttons' = buttons \cup {b}
    /\ pointerOver
    /\ IF Hears("mousedown")
       THEN /\ isDragging' = TRUE
            /\ dragStart' = Minus(p, captured.position)
            /\ nodes' = SetCursor(nodes, svgRef, "grabbing")
       ELSE UNCHANGED <<isDragging, dragStart, nodes>>
    /\ Step("beginDrag", p)
    /\ UNCHANGED <<life, svgContent, scale, position, captured, gen, cleanup,
                   svgRef, container, timers, pointerOver>>

\* handleMouseUp without setIsDragging(false)
MouseUpEffectKeepsSession ==
    /\ isDragging' = isDragging
    /\ nodes' = SetCursor(nodes, svgRef, "grab")

\* handleMouseUp, lines 125-130
MouseUpEffect ==
    /\ isDragging' = FALSE
    /\ nodes' = SetCursor(nodes, svgRef, "grab")

\* button b is released; over the diagram this is handleMouseUp
MouseUp(b) ==
    /\ life = "live"
    /\ b \in buttons
    /\ buttons' = buttons \ {b}
    /\ IF Hears("mouseup")
       THEN MouseUpEffect
       ELSE UNCHANGED <<isDragging, nodes>>
    /\ Step(IF pointerOver THEN "endDrag" ELSE "upOutside", Origin)
    /\ UNCHANGED <<life, svgContent, scale, position, dragStart, captured, gen,
                   cleanup, svgRef, container, timers,
                   pointerOver>>

\* the pointer leaves the diagram: the mouseleave listener is handleMouseUp
MouseLeave ==
    /\ life = "live"
    /\ pointerOver
    /\ pointerOver' = FALSE
    /\ IF Hears("mouseleave")
       THEN MouseUpEffect
       ELSE UNCHANGED <<isDragging, nodes>>
    /\ Step("leave", Origin)
    /\ UNCHANGED <<life, svgContent, scale, position, dragStart, captured, gen,
                   cleanup, svgRef, container, timers, buttons>>

\* the pointer moves to p over the diagram: handleMouseMove, lines 114-123
MouseMove(p) ==
    /\ life = "live"
    /\ p \in Points
    /\ pointerOver
    /\ IF Hears("mousemove") /\ captured.isDragging
       THEN /\ position' = Minus(p, captured.dragStart)
            /\ nodes' = updateTransform(nodes, svgRef, captured.scale,
                                        Minus(p, captured.dragStart))
       ELSE UNCHANGED <<position, nodes>>
    /\ Step("continueDrag", p)
    /\ UNCHANGED <<life, svgContent, scale, isDragging, dragStart, captured,
                   gen, cleanup, svgRef, container, timers,
                   pointerOver, buttons>>

\* a wheel event over the diagram: handleWheel, lines 132-138
Wheel(dir) ==
    /\ life = "live"
    /\ dir \in {"in", "out"}
    /\ Hears("wheel")
    /\ scale' = WheelScale(captured.scale, dir)
    /\ nodes' = updateTransform(nodes, svgRef, WheelScale(captured.scale, dir),
                                captured.position)
    /\ Step(IF dir = "out" THEN "wheelOut" ELSE "wheelIn", Origin)
    /\ UNCHANGED <<life, svgContent, position, isDragging, dragStart, captured,
                   gen, cleanup, svgRef, container, timers,
                   pointerOver, buttons>>

\* ------------------------------------- listeners of the child, lines 60-80
\* click: recolour, and schedule the revert to the fill read at click time
Click ==
    /\ life = "live"
    /\ pointerOver
    /\ Attached # {}
    /\ "click" \in nodes[Target].subListeners
    /\ Len(timers) < MaxTimers
    /\ timers' = Append(timers, [node |-> Target, fill |-> nodes[Target].fill])
    /\ nodes' = [nodes EXCEPT ![Target].fill = "#007acc"]
    /\ Step("click", Origin)
    /\ UNCHANGED <<life, svgContent, scale, position, isDragging, dragStart,
                   captured, gen, cleanup, svgRef, container, pointerOver, buttons>>

\* lines 66-68: the oldest pending timer fires (all have the same delay)
TimerFire ==
    /\ timers # <<>>
    /\ nodes' = [nodes EXCEPT ![Head(timers).node].fill = Head(timers).fill]
    /\ timers' = Tail(timers)
    /\ Step("timer", Origin)
    /\ UNCHANGED <<life, svgContent, scale, position, isDragging, dragStart,
                   captured, gen, cleanup, svgRef, container, pointerOver, buttons>>

\* ------------------------------------------------------------------ Next
Next ==
    \/ \E doc \in Docs : SetContent(doc)
    \/ Destroy
    \/ zoomIn
    \/ zoomOut
    \/ resetView
    \/ fitToContainer
    \/ PointerEnter
    \/ \E p \in Points, b \in Buttons : MouseDown(p, b)
    \/ \E b \in Buttons : MouseUp(b)
    \/ MouseLeave
    \/ \E p \in Points : MouseMove(p)
    \/ \E dir \in {"in", "out"} : Wheel(dir)
    \/ Click
    \/ TimerFire

Spec == Init /\ [][Next]_vars

\* the host application and the control bar alone, for longer
InitZoom == InitState /\ steps = MaxZoomSteps

NextZoom ==
    \/ \E doc \in Docs : SetContent(doc)
    \/ zoomIn
    \/ zoomOut
    \/ resetView
    \/ fitToContainer

SpecZoom == InitZoom /\ [][NextZoom]_vars

\* ------------------------------------------ the application form (App)
\* file.name as the list name.split('.') with its size in bytes
Files ==
    {[name |-> <<"report", "pdf">>, size |-> 1024],
     [name |-> <<"REPORT", "PDF">>, size |-> 10485760],
     [name |-> <<"notes", "txt">>, size |-> 1024],
     [name |-> <<"slides", "pptx">>, size |-> 10485761],
     [name |-> <<"pdf">>, size |-> 1024]}

\* line 130
allowedTypes == {".pdf", ".xlsx", ".xls", ".pptx", ".ppt"}

\* line 144: 10 * 1024 * 1024
MaxFileSize == 10485760

\* String.prototype.toLowerCase on the segments that occur in Files
toLowerCase(str) ==
    CASE str = "PDF" -> "pdf"
      [] str = "REPORT" -> "report"
      [] OTHER -> str

\* '.' + x for the extensions that occur
DotPlus(x) ==
    CASE x = "pdf" -> ".pdf"
      [] x = "txt" -> ".txt"
      [] x = "pptx" -> ".pptx"
      [] OTHER -> "." \o x

\* line 131: '.' + file.name.split('.').pop()?.toLowerCase()
fileExtension(file) == DotPlus(toLowerCase(file.name[Len(file.name)]))

\* lines 133-153: the two early returns
PassesValidation(file) ==
    /\ fileExtension(file) \in allowedTypes
    /\ ~(file.size > MaxFileSize)

\* what the responses of the two endpoints can be
Payloads == {"diagramA", "diagramB"}

UploadOutcomes == {"rejected", "notOk", "badJson", "ok"}

SubmitOutcomes ==
    {"rejected", "notOk", "badJson", "successFalse", "noStencils", "ok"}

\* one more operation of the form, within the bound of the model
AppStep(name, x) ==
    /\ steps > 0
    /\ steps' = steps - 1
    /\ lastOp' = Op(name, x, -1)
    /\ UNCHANGED viewerVars

\* lines 116-118 (and 120-123): spread of the formData of the current render
handleChange(value) ==
    /\ value \in {"", "prod"}
    /\ value # formData.field
    /\ formData' = [formData EXCEPT !.field = value]
    /\ AppStep("change", value)
    /\ UNCHANGED <<results, loading, uploadProgress, fileUploadResults,
                   uploads, submitting>>

\* lines 125-161: the file input changes; validation, then the code runs up
\* to `await fetch`.  The suspended call keeps the formData of this render.
UploadStart(file) ==
    /\ file \in Files
    /\ IF PassesValidation(file)
       THEN /\ Cardinality(uploads) < MaxUploads
            /\ \A u \in uploads : u.file # file
            /\ uploadProgress' = 50
            /\ uploads' = uploads \cup
                   {[file |-> file, seen |-> formData.uploaded_files_info]}
       ELSE UNCHANGED <<uploadProgress, uploads>>
    /\ AppStep("uploadStart", file)
    /\ UNCHANGED <<formData, results, loading, fileUploadResults, submitting>>

\* the suspended handleFileUpload call for file
UploadOf(file) == CHOOSE u \in uploads : u.file = file

\* lines 163-204: the fetch of the call for file settles
UploadSettle(file, outcome) ==
    /\ file \in {u.file : u \in uploads}
    /\ outcome \in UploadOutcomes
    /\ uploads' = uploads \ {UploadOf(file)}
    /\ IF outcome = "ok"
       THEN \* lines 174-182
            /\ fileUploadResults' = Append(fileUploadResults, file.name)
            /\ formData' = [formData EXCEPT
                   !.uploaded_files_info = Append(UploadOf(file).seen, file.name)]
       ELSE \* lines 165-167 / 192-200
            UNCHANGED <<fileUploadResults, formData>>
    /\ uploadProgress' = 0
    /\ AppStep("uploadSettle", file)
    /\ UNCHANGED <<results, loading, submitting>>

\* lines 254-261: the button is disabled while loading (isLoading, line 729)
SubmitStart ==
    /\ ~loading
    /\ loading' = TRUE
    /\ submitting' = TRUE
    /\ AppStep("submitStart", "")
    /\ UNCHANGED <<formData, results, uploadProgress, fileUploadResults,
                   uploads>>

\* handleSubmit whose error path leaves the function before setLoading(false)
SubmitSettleNoFinally(outcome, data) ==
    /\ submitting
    /\ outcome \in SubmitOutcomes
    /\ data \in Payloads
    /\ submitting' = FALSE
    /\ results' = IF outcome \in {"ok", "noStencils"} THEN data ELSE results
    /\ loading' = IF outcome = "ok" THEN FALSE ELSE loading
    /\ AppStep("submitSettle", outcome)
    /\ UNCHANGED <<formData, uploadProgress, fileUploadResults, uploads>>

\* handleSubmit whose catch block calls setResults(null)
SubmitSettleClearsResults(outcome, data) ==
    /\ submitting
    /\ outcome \in SubmitOutcomes
    /\ data \in Payloads
    /\ submitting' = FALSE
    /\ results' = IF outcome \in {"ok", "noStencils"} THEN data ELSE "null"
    /\ loading' = FALSE
    /\ AppStep("submitSettle", outcome)
    /\ UNCHANGED <<formData, uploadProgress, fileUploadResults, uploads>>

\* lines 263-296: the fetch settles.  "noStencils" is a body with success =
\* true and no azure_stencils: setResults runs (line 286), then the template
\* of line 287 throws and the catch shows the error alert.
SubmitSettle(outcome, data) ==
    /\ submitting
    /\ outcome \in SubmitOutcomes
    /\ data \in Payloads
    /\ submitting' = FALSE
    /\ results' = IF outcome \in {"ok", "noStencils"} THEN data ELSE results
    /\ loading' = FALSE
    /\ AppStep("submitSettle", outcome)
    /\ UNCHANGED <<formData, uploadProgress, fileUploadResults, uploads>>

InitApp == InitState /\ steps = MaxAppSteps

NextApp ==
    \/ \E value \in {"", "prod"} : handleChange(value)
    \/ \E file \in Files : UploadStart(file)
    \/ \E file \in Files, outcome \in UploadOutcomes :
           UploadSettle(file, outcome)
    \/ SubmitStart
    \/ \E outcome \in SubmitOutcomes, data \in Payloads :
           SubmitSettle(outcome, data)

SpecApp == InitApp /\ [][NextApp]_vars

\* ----------------------------------------------------------- consistency
\* the handlers on an attached root are those of the render in `captured`
\* (so Hears dispatches every handler that is registered there)
HandlersAreCaptured ==
    \A i \in Attached : \A l \in nodes[i].listeners : l[2] = captured.gen

\* the root was produced by a mount
Created(i) == nodes[i].cursor # ""

InRange(s) == Le(MinScale, s) /\ Le(s, MaxScale)

ZoomOps == {"zoomIn", "zoomOut", "wheelIn", "wheelOut"}

\* ------------------------------------------------------------------ claims

\* C1: in every reachable state of a viewer instance the scale of the
\* ViewportState lies in [0.1, 3.0].
C1_ScaleAlwaysInRange == InRange(scale)

\* C2: immediately after zoomIn, zoomOut or a wheel zoom, from any prior
\* state, the resulting scale lies in [0.1, 3.0].
C2_ZoomResultInRange == lastOp.op \in ZoomOps => InRange(scale)

\* C3: a wheel event sets scale to clamp(s * 0.9) when scrolling out and to
\* clamp(s * 1.1) otherwise, s being the scale current at the time of the event.
C3_WheelScalesCurrentScale ==
    [][/\ lastOp'.op = "wheelOut" => scale' = WheelScale(scale, "out")
       /\ lastOp'.op = "wheelIn" => scale' = WheelScale(scale, "in")]_vars

\* C4: after beginDrag at p0 while the offset is o0, a continueDrag at p1
\* sets the offset to p1 - p0 + o0 and re-applies the transform (stated for
\* the continueDrag that directly follows the beginDrag).
C4_ContinueDragFollowsPointer ==
    [][(lastOp.op = "beginDrag" /\ lastOp'.op = "continueDrag")
         => /\ position' = Minus(lastOp'.p, Minus(lastOp.p, position))
            /\ \A i \in Attached : nodes'[i].transform = TransformOf(scale', position')]_vars

\* C5: after endDrag no DragSession is active, and a pointer-move while no
\* DragSession is active leaves scale and offset unchanged, also after remounts.
C5_MoveWithoutSessionIsNoOp ==
    /\ [](lastOp.op = "endDrag" => ~isDragging)
    /\ [][(lastOp'.op = "continueDrag" /\ ~isDragging)
            => (scale' = scale /\ position' = position)]_vars

\* C6: a DragSession is active only while a button pressed on the diagram is
\* still held: in no reachable state is a session active without the button held.
C6_NoSessionWithoutButton == isDragging => buttons # {}

\* C7: beginDrag while a DragSession is already active is a no-op: the drag
\* origin, the origin offset (both kept in dragStart) and the ViewportState
\* are unchanged by the second pointer-down.
C7_SecondBeginDragIsNoOp ==
    [][(lastOp'.op = "beginDrag" /\ isDragging)
         => (dragStart' = dragStart /\ scale' = scale /\ position' = position)]_vars

\* C8: reset() yields scale = 1 and offset = (0,0) whatever the prior state,
\* and the transform on the diagram root is scale(1) translate(0, 0).
C8_ResetYieldsIdentity ==
    lastOp.op = "reset"
        => /\ scale = One
           /\ position = Origin
           /\ \A i \in Attached : nodes[i].transform = TransformOf(One, Origin)

\* reset has acted on a mounted diagram whose drag state was not the initial one
C8_Witness ==
    /\ lastOp.op = "reset"
    /\ svgRef \in Attached
    /\ isDragging
    /\ nodes[svgRef].transform = TransformOf(One, Origin)

\* C9: once a second valid document is mounted, the first document's root has
\* none of the listeners its mount attached, neither on the root nor on its
\* child, and no timer registered for it is pending.
C9_FirstDocumentSilenced ==
    \A i \in NodeIds :
        (Created(i) /\ svgRef # i /\ svgContent.kind = "svg")
            => /\ nodes[i].listeners = {}
               /\ nodes[i].subListeners = {}
               /\ \A k \in 1 .. Len(timers) : timers[k].node # i

\* C10: at most one diagram is attached to the container, a replaced diagram
\* has its root handlers removed, and svgRef designates the attached diagram.
C10_RefDesignatesAttachedDiagram ==
    life = "live"
        => /\ Cardinality(Attached) <= 1
           /\ \A i \in NodeIds \ Attached : nodes[i].listeners = {}
           /\ svgRef # 0 => Attached = {svgRef}

\* the fit scale of the specification, min(cw/w, ch/h, 1) * 0.9, for a
\* container c = (cw, ch) and a content of size (w, h)
SpecFit(c, w, h) ==
    Mul(MathMin(MathMin(Q(c[1], w), Q(c[2], h)), One), Q(9, 10))

RECURSIVE Pow(_, _)
Pow(a, n) == IF n = 0 THEN One ELSE Mul(a, Pow(a, n - 1))

\* a static message stands where the diagram would be
MessageShown == Rendered \in {"noContentMessage", "error"}

C12_MountFailsClosed ==
    lastOp.op = "mount"
        => /\ life = "live"
           /\ IF svgContent.kind = "svg"
              THEN /\ Rendered = "diagram"
                   /\ svgRef = gen
                   /\ Attached = {gen}
                   /\ nodes[gen].listeners = {<<e, gen>> : e \in RootEvents}
              ELSE /\ MessageShown
                   /\ Attached = {}
                   /\ nodes[gen] = NoNode

\* the second mount failed on content that is not svg, after a first diagram:
\* the error paragraph is shown and the failed mount produced no node
C12_Witness ==
    /\ lastOp.op = "mount"
    /\ svgContent.kind = "bad"
    /\ gen = 2
    /\ Created(1)
    /\ container = "error"
    /\ nodes[2] = NoNode

\* C13: fitToContainer (at the end of a mount or from the Fit button) on an
\* attached diagram of own size (w, h) in a container (cw, ch) sets
\* scale = min(cw/w, ch/h, 1) * 0.9 and offset = (0,0), whatever scale is
\* applied to the diagram when it is called.
C13_FitUsesContentSize ==
    ((lastOp.op = "fit" \/ (lastOp.op = "mount" /\ svgContent.kind = "svg"))
     /\ svgRef \in Attached)
        => /\ scale = SpecFit(ContainerRect, nodes[svgRef].w, nodes[svgRef].h)
           /\ position = Origin

ZeroRect(r) == r[1] = Q(0, 1) \/ r[2] = Q(0, 1)

\* C14: fitToContainer leaves scale and offset unchanged whenever the
\* container or the content is missing, or the content's box has zero width
\* or zero height.
C14_FitNoOpWithoutContent ==
    [][(lastOp'.op = "fit"
        /\ (container = "null" \/ svgRef = 0 \/ ZeroRect(SvgRect(nodes, svgRef))))
         => (scale' = scale /\ position' = position)]_vars

\* C15: zoomIn sets scale to min(3, scale * 1.2) and zoomOut sets it to
\* max(0.1, scale * 0.8), scale being the state at the time of the call; n
\* zoomIn calls in a row from scale 1 (after a reset) give min(3, 1.2^n), which
\* is 1.728 for n = 3.
C15_DiscreteZoomSteps ==
    /\ [](lastOp.n >= 0
            => scale = MathMin(Q(3, 1), Pow(Q(12, 10), lastOp.n)))
    /\ [](lastOp.n = 3 => scale = Q(1728, 1000))
    /\ [][/\ (lastOp'.op = "zoomIn"
               => scale' = MathMin(Q(3, 1), Mul(scale, Q(12, 10))))
           /\ (lastOp'.op = "zoomOut"
               => scale' = MathMax(Q(1, 10), Mul(scale, Q(8, 10))))]_vars

\* the seventh zoomIn in a row after a reset: 1.2^7 > 3, the scale is 3
C15_Witness ==
    /\ lastOp.op = "zoomIn"
    /\ lastOp.n = 7
    /\ scale = Q(3, 1)

\* C16: at a zoom bound the discrete step would change nothing (zoomIn at 3
\* gives 3, zoomOut at 0.1 gives 0.1) and cannot be taken: the zoom-in button
\* is disabled exactly when scale >= 3, the zoom-out button exactly when
\* scale <= 0.1, and no zoomIn / zoomOut starts from a disabled button.
C16_ZoomBoundsAreFixpoints ==
    /\ [](/\ (zoomInDisabled <=> ~Lt(scale, Q(3, 1)))
          /\ (zoomOutDisabled <=> ~Lt(Q(1, 10), scale))
          /\ (scale = Q(3, 1) => ZoomInScale(scale) = scale)
          /\ (scale = Q(1, 10) => ZoomOutScale(scale) = scale))
    /\ [][/\ (lastOp'.op = "zoomIn" => Lt(scale, Q(3, 1)))
           /\ (lastOp'.op = "zoomOut" => Lt(Q(1, 10), scale))]_vars

\* zoomIn has reached the upper bound and its button is now disabled
C16_Witness ==
    /\ lastOp.op = "zoomIn"
    /\ scale = Q(3, 1)
    /\ zoomInDisabled
    /\ ~zoomOutDisabled

\* C17: handleMouseUp (pointer-up or pointer-leave over the diagram) leaves
\* no session, the cursor "grab" and scale and offset untouched; when no
\* session is active it changes nothing at all, so a second call in a row
\* leaves the state of the first.
C17_EndDragIdempotent ==
    [][(lastOp'.op \in {"endDrag", "leave"})
         => /\ ~isDragging'
            /\ scale' = scale
            /\ position' = position
            /\ (svgRef # 0 => nodes'[svgRef].cursor = "grab")
            /\ (~isDragging
                  => UNCHANGED <<isDragging, dragStart, nodes, scale, position,
                                 svgRef, captured, timers>>)]_vars

\* a pointer-up ended the session while another button is still held: the
\* release of that button is a handleMouseUp with no session
C17_Witness ==
    /\ lastOp.op = "endDrag"
    /\ ~isDragging
    /\ buttons # {}
    /\ svgRef \in Attached
    /\ nodes[svgRef].cursor = "grab"

\* the styles of root i that the operations write
StyleOf(ns, i) == <<ns[i].transform, ns[i].cursor, ns[i].fill>>

\* C18: once a diagram root is detached, no later operation writes a
\* transform or a style to it.
C18_NoWriteToDetachedRoot ==
    [][\A i \in NodeIds :
          (Created(i) /\ ~nodes[i].attached)
              => StyleOf(nodes', i) = StyleOf(nodes, i)]_vars

\* C19: a successful mount ends with fitToContainer: right after it the offset
\* is (0,0), the scale is the fit scale of the new content and the root
\* carries that transform, whatever the previous document left; before the
\* first mount the state is scale = 1, offset = (0,0).
C19_MountEndsWithFit ==
    /\ (life = "new" => (scale = One /\ position = Origin))
    /\ (lastOp.op = "mount" /\ svgContent.kind = "svg")
         => /\ position = Origin
            /\ scale = SpecFit(ContainerRect, svgContent.w, svgContent.h)
            /\ svgRef \in Attached
            /\ nodes[svgRef].transform = TransformOf(scale, Origin)

\* a second document was mounted while the state left by the first one was
\* neither the initial scale nor the new fit scale (captured is the state of
\* the render that mounted it)
C19_Witness ==
    /\ lastOp.op = "mount"
    /\ svgContent.kind = "svg"
    /\ gen = 2
    /\ captured.scale # One
    /\ captured.scale # scale
    /\ scale = SpecFit(ContainerRect, svgContent.w, svgContent.h)

\* C20: once no click-feedback timer is pending for a root, the fill of its
\* interactive child is the fill it had before the first click, not #007acc.
C20_ClickFeedbackReverts ==
    \A i \in NodeIds :
        (Created(i) /\ \A k \in 1 .. Len(timers) : timers[k].node # i)
            => nodes[i].fill = "original"

\* C21: in every state the cursor of the mounted (attached) diagram root is
\* "grabbing" exactly when a DragSession is active and "grab" otherwise, also
\* after new content is mounted during a drag.
C21_CursorTracksSession ==
    \A i \in Attached :
        nodes[i].cursor = (IF isDragging THEN "grabbing" ELSE "grab")

\* the operations after which C22 compares the DOM transform with the state
TransformOps ==
    {"mount", "wheelIn", "wheelOut", "zoomIn", "zoomOut", "reset", "fit",
     "continueDrag"}

\* C22: after mount, wheel zoom, zoomIn, zoomOut, reset, fitToContainer and
\* continueDrag the transform on the mounted root is the one derived from the
\* stored state, scale(s) translate(x/s, y/s).
C22_TransformFollowsState ==
    lastOp.op \in TransformOps
        => \A i \in Attached : nodes[i].transform = TransformOf(scale, position)

\* C23: after a mount, a pointer-move that comes before any new pointer-down
\* leaves the offset unchanged (a session in progress does not carry over),
\* and pointer-up / pointer-leave over the diagram end any session.
C23_SessionEndsAtRemount ==
    /\ [][(lastOp.op = "mount" /\ lastOp'.op = "continueDrag")
            => position' = position]_vars
    /\ [][(lastOp'.op \in {"endDrag", "leave"}) => ~isDragging']_vars

\* C24: a fitToContainer that directly follows a fitToContainer changes
\* neither scale, offset nor the applied transform.
C24_FitIdempotent ==
    [][(lastOp.op = "fit" /\ lastOp'.op = "fit")
         => (scale' = scale /\ position' = position /\ nodes' = nodes)]_vars

\* C25: zoomIn and a scroll-in wheel event never decrease scale; zoomOut and
\* a scroll-out wheel event never increase it.
C25_ZoomMonotone ==
    [][/\ (lastOp'.op \in {"zoomIn", "wheelIn"} => Le(scale, scale'))
       /\ (lastOp'.op \in {"zoomOut", "wheelOut"} => Le(scale', scale))]_vars

\* C26: wheel zoom, zoomIn and zoomOut leave the stored offset and the
\* DragSession (isDragging, dragStart) unchanged; beginDrag, continueDrag and
\* endDrag (pointer-up or pointer-leave) leave the stored scale unchanged.
C26_ZoomPanOrthogonal ==
    [][/\ (lastOp'.op \in ZoomOps
            => UNCHANGED <<position, isDragging, dragStart>>)
       /\ (lastOp'.op \in {"beginDrag", "continueDrag", "endDrag", "leave"}
            => scale' = scale)]_vars

\* zoomIn was pressed while a session begun at (10,20) was active
C26_Witness ==
    /\ lastOp.op = "zoomIn"
    /\ isDragging
    /\ dragStart = <<10, 20>>

\* C27: handleSubmit sets loading to true when it starts, and whatever the
\* request does (fetch rejects, status not ok, body not JSON, success = false,
\* success) loading is false once it has settled; loading is never left true
\* without a request in flight.
C27_LoadingReturnsToFalse ==
    /\ [](loading <=> submitting)
    /\ [][/\ (lastOp'.op = "submitStart" => loading')
           /\ (lastOp'.op = "submitSettle" => ~loading')]_vars

\* a request whose fetch rejected has settled
C27_Witness ==
    /\ lastOp.op = "submitSettle"
    /\ lastOp.p = "rejected"
    /\ ~loading

\* the outcomes with an ok status and a body with success = true
SubmitSucceeded(outcome) == outcome \in {"ok", "noStencils"}

\* C28: results change only when a handleSubmit request settles with an ok
\* status and a body with success = true; on a network error, a non-ok
\* status, an unreadable body or success = false they are left as they were.
C28_ResultsOnlyOnSuccess ==
    [][/\ (results' # results
            => (lastOp'.op = "submitSettle" /\ SubmitSucceeded(lastOp'.p)))
       /\ ((lastOp'.op = "submitSettle" /\ ~SubmitSucceeded(lastOp'.p))
            => results' = results)
       /\ ((lastOp'.op = "submitSettle" /\ SubmitSucceeded(lastOp'.p))
            => results' \in Payloads)]_vars

\* a request failed with a non-ok status while results of an earlier
\* generation were displayed: they still are
C28_Witness ==
    /\ lastOp.op = "submitSettle"
    /\ lastOp.p = "notOk"
    /\ results \in Payloads

Range(seq) == {seq[k] : k \in 1 .. Len(seq)}

\* C29: when no upload is in flight, formData.uploaded_files_info holds one
\* entry for every successful upload: the same files as fileUploadResults.
C29_NoUploadEntryLost ==
    uploads = {}
        => /\ Len(formData.uploaded_files_info) = Len(fileUploadResults)
           /\ Range(formData.uploaded_files_info) = Range(fileUploadResults)

\* the extension of a file name: the lower-cased text after its last dot,
\* nothing when the name has no dot
SpecExtension(file) ==
    IF Len(file.name) >= 2
    THEN DotPlus(toLowerCase(file.name[Len(file.name)]))
    ELSE ""

\* C30: for a file whose extension is not .pdf, .xlsx, .xls, .pptx or .ppt
\* (case-insensitively), or whose size exceeds 10 MB, handleFileUpload sends
\* no request and leaves formData, fileUploadResults and uploadProgress
\* unchanged; when an attempt that passed validation ends, uploadProgress is 0.
C30_UploadValidation ==
    [][/\ ((lastOp'.op = "uploadStart"
             /\ (SpecExtension(lastOp'.p) \notin allowedTypes
                 \/ lastOp'.p.size > MaxFileSize))
            => UNCHANGED <<uploads, formData, fileUploadResults, uploadProgress>>)
       /\ (lastOp'.op = "uploadSettle" => uploadProgress' = 0)]_vars

====
